---------------------------- MODULE Spec2Model ----------------------------
(***************************************************************************)
(* Model of src/app.py, the "Economic Data Explorer" script.  One run of   *)
(* the script is a straight line of stages: sidebar inputs, sheet          *)
(* selection, load_file, preview, overview, summary statistics, column     *)
(* explorer (with the resampling aggregator), correlation, filter and the  *)
(* full-dataset download.  Each stage is one action; pc is the position    *)
(* of the script.  The data-frame library calls the script makes are       *)
(* modelled by what they compute on small tables.                          *)
(***************************************************************************)
EXTENDS Integers, Sequences, FiniteSets, TLC

(***************************************************************************)
(* Bounds of the model.                                                    *)
(***************************************************************************)
MaxRows == 3
MaxSheets == 2

\* is_datetime_series probes s.dropna().head(10)
SampleSize == 10

(***************************************************************************)
(* Cells.  k is the kind of the value: "na" (NaN/NaT/None), "num" (a       *)
(* number n), "big" (a float beyond the datetime64[ns] range, written s),  *)
(* "str" (the text s), "ts" (a timestamp: day d since 1970-01-01 plus n    *)
(* nanoseconds).                                                           *)
(***************************************************************************)
NA == [k |-> "na", d |-> 0, n |-> 0, s |-> ""]
Num(v) == [k |-> "num", d |-> 0, n |-> v, s |-> ""]
Big(t) == [k |-> "big", d |-> 0, n |-> 0, s |-> t]
Str(t) == [k |-> "str", d |-> 0, n |-> 0, s |-> t]
Ts(day, ns) == [k |-> "ts", d |-> day, n |-> ns, s |-> ""]

IsNA(c) == c.k = "na"

(***************************************************************************)
(* Proleptic Gregorian calendar, days counted from 1970-01-01 (day 0).     *)
(***************************************************************************)
DaysFromCivil(y, m, dd) ==
    LET yy == IF m <= 2 THEN y - 1 ELSE y
        era == yy \div 400
        yoe == yy - era * 400
        mp == (m + 9) % 12
        doy == (153 * mp + 2) \div 5 + dd - 1
        doe == yoe * 365 + yoe \div 4 - yoe \div 100 + doy
    IN  era * 146097 + doe - 719468

CivilFromDays(z) ==
    LET zz == z + 719468
        era == zz \div 146097
        doe == zz - era * 146097
        yoe == (doe - doe \div 1460 + doe \div 36524 - doe \div 146096) \div 365
        doy == doe - (365 * yoe + yoe \div 4 - yoe \div 100)
        mp == (5 * doy + 2) \div 153
        dd == doy - (153 * mp + 2) \div 5 + 1
        m == IF mp < 10 THEN mp + 3 ELSE mp - 9
        y == yoe + era * 400 + (IF m <= 2 THEN 1 ELSE 0)
    IN  [y |-> y, m |-> m, d |-> dd]


(***************************************************************************)
(* pd.to_datetime.  Text parses when it is a calendar date; a number is    *)
(* taken as nanoseconds since the epoch (the numbers of the model are all  *)
(* below one day of nanoseconds, so they land on day 0); a float beyond    *)
(* the int64 nanosecond range is out of bounds.                            *)
(***************************************************************************)
DateTexts == {"2024-01-05", "2024-02-10", "2024-04-10", "2025-01-05"}

ParseDate(t) ==
    CASE t = "2024-01-05" -> DaysFromCivil(2024, 1, 5)
      [] t = "2024-02-10" -> DaysFromCivil(2024, 2, 10)
      [] t = "2024-04-10" -> DaysFromCivil(2024, 4, 10)
      [] t = "2025-01-05" -> DaysFromCivil(2025, 1, 5)

\* does converting this one value raise under errors="raise"?
ConvertRaises(c) ==
    \/ c.k = "str" /\ c.s \notin DateTexts
    \/ c.k = "big"

\* the converted value; what raises under errors="raise" is NaT under "coerce"
to_datetime_value(c) ==
    CASE c.k = "na" -> NA
      [] c.k = "ts" -> c
      [] c.k = "num" -> Ts(0, c.n)
      [] c.k = "str" -> IF c.s \in DateTexts THEN Ts(ParseDate(c.s), 0) ELSE NA
      [] c.k = "big" -> NA

\* pd.to_datetime(vals, errors="raise") raises
to_datetime_raises(vals) == \E i \in 1..Len(vals) : ConvertRaises(vals[i])

\* pd.to_datetime(vals, errors="coerce")
to_datetime_coerce(vals) == [i \in 1..Len(vals) |-> to_datetime_value(vals[i])]

(***************************************************************************)
(* Series helpers: dropna, head.                                           *)
(***************************************************************************)
dropna(vals) == SelectSeq(vals, LAMBDA c : ~IsNA(c))

head(vals, cnt) == IF Len(vals) <= cnt THEN vals ELSE SubSeq(vals, 1, cnt)

(***************************************************************************)
(* Column dtypes.  A parsed column is int64 when every cell is a number,   *)
(* float64 when numbers are mixed with missing cells or all cells are      *)
(* missing, datetime64[ns] for worksheet date cells, object otherwise      *)
(* (a column of a table with no rows is object).                           *)
(***************************************************************************)
InferDtype(vals) ==
    IF Len(vals) = 0 THEN "object"
    ELSE IF \A i \in 1..Len(vals) : vals[i].k = "num" THEN "int64"
    ELSE IF \A i \in 1..Len(vals) : vals[i].k \in {"num", "big", "na"} THEN "float64"
    ELSE IF \A i \in 1..Len(vals) : vals[i].k \in {"ts", "na"} THEN "datetime64[ns]"
    ELSE "object"

\* a dtype selected by include=np.number / pd.api.types.is_numeric_dtype
is_numeric_dtype(dtype) == dtype \in {"int64", "float64"}

is_datetime64_any_dtype(dtype) == dtype = "datetime64[ns]"

(***************************************************************************)
(* The uploads of the model.  A column is a function of the row index;     *)
(* a table is a sequence of columns cut to n rows.                         *)
(***************************************************************************)
ColumnCell(name, i) ==
    CASE name = "price" -> IF i % 2 = 1 THEN Num(100) ELSE Num(250)
      [] name = "region" -> IF i % 2 = 1 THEN Str("East") ELSE Str("West")
      [] name = "date" -> IF i % 2 = 1 THEN Str("2024-01-05") ELSE Str("2024-02-10")
      [] name = "empty" -> NA
      [] name = "when" -> (CASE i % 4 = 1 -> Str("2024-01-05")
                             [] i % 4 = 2 -> Str("2024-04-10")
                             [] i % 4 = 3 -> NA
                             [] i % 4 = 0 -> Str("2025-01-05"))
      [] name = "qty" -> (CASE i % 3 = 1 -> Num(1)
                            [] i % 3 = 2 -> NA
                            [] i % 3 = 0 -> Num(3))
      [] name = "gdp" -> Big("1e+19")
      [] name = "mixed" -> IF i <= SampleSize THEN Str("2024-01-05") ELSE Str("unknown")
      [] name = "stamp" -> IF i % 2 = 1 THEN Ts(DaysFromCivil(2024, 1, 5), 0)
                                        ELSE Ts(DaysFromCivil(2024, 2, 10), 0)

MakeColumn(name, n) ==
    LET vals == [i \in 1..n |-> ColumnCell(name, i)]
    IN  [name |-> name, dtype |-> InferDtype(vals), vals |-> vals]

MakeTable(names, n) == [j \in 1..Len(names) |-> MakeColumn(names[j], n)]

CsvSchemas ==
    { <<"price", "region", "date">>,
      <<"empty", "price">>,
      <<"when", "qty", "price">>,
      <<"mixed", "price">>,
      <<"gdp", "region">> }

SheetSchemas == { <<"stamp", "price">>, <<"price", "qty">> }

\* the row counts of the model: 0..MaxRows, and one table longer than the probe
RowCounts == (0..MaxRows) \cup {SampleSize + 1}

nrows(t) == Len(t[1].vals)

ColumnNames(t) == [j \in 1..Len(t) |-> t[j].name]


(***************************************************************************)
(* Uploaded files.  ext is the extension of the file's name as typed; the  *)
(* body is what the bytes hold: delimited text ("text": decodable as UTF-8 *)
(* or not, well-formed or not), an OOXML workbook ("xlsx": its sheet names *)
(* can be listed by pd.ExcelFile without an engine or not), or a legacy    *)
(* BIFF workbook ("biff"), which openpyxl cannot open.                     *)
(***************************************************************************)
None == "None"

NoFile == [ext |-> "", fmt |-> None, utf8 |-> TRUE, parses |-> TRUE,
           listable |-> TRUE, schemas |-> <<>>, n |-> 0]

TextBody(ext, utf8, parses, schema, n) ==
    [ext |-> ext, fmt |-> "text", utf8 |-> utf8, parses |-> parses,
     listable |-> FALSE, schemas |-> <<schema>>, n |-> n]

BookBody(ext, fmt, listable, schemas, n) ==
    [ext |-> ext, fmt |-> fmt, utf8 |-> FALSE, parses |-> TRUE,
     listable |-> listable, schemas |-> schemas, n |-> n]

\* sheet lists of 1..MaxSheets sheets
SheetLists == UNION { [1..k -> SheetSchemas] : k \in 1..MaxSheets }

TextUploads ==
    { TextBody(".csv", u, TRUE, sc, n) : u \in BOOLEAN, sc \in CsvSchemas, n \in RowCounts }
    \cup { TextBody(e, u, p, <<"price", "region", "date">>, MaxRows) :
             e \in {".csv", ".txt", ".CSV", ".json", ""}, u \in BOOLEAN, p \in BOOLEAN }

BookUploads ==
    { BookBody(".xlsx", "xlsx", l, sl, n) : l \in BOOLEAN, sl \in SheetLists, n \in 0..MaxRows }
    \cup { BookBody(e, f, TRUE, <<<<"price", "qty">>>>, MaxRows) :
             e \in {".xlsx", ".xls", ".XLSX"}, f \in {"xlsx", "biff"} }

Encodings == {"utf-8", "latin-1", "utf-9"}

KnownEncodings == {"utf-8", "latin-1"}

\* str.lower() on the extensions of the model
lower(e) ==
    CASE e = ".CSV" -> ".csv"
      [] e = ".XLSX" -> ".xlsx"
      [] OTHER -> e

SheetLabel(i) ==
    CASE i = 1 -> "Sheet1"
      [] i = 2 -> "Sheet2"
      [] i = 3 -> "Sheet3"
      [] OTHER -> "Sheet4"

sheet_names(file) == [i \in 1..Len(file.schemas) |-> SheetLabel(i)]

(***************************************************************************)
(* Values a name of the script can hold after load_file: a DataFrame, the  *)
(* dict of DataFrames pd.read_excel returns for sheet_name=None, or        *)
(* nothing.                                                                *)
(***************************************************************************)
NoDf == [kind |-> None, cols |-> <<>>, sheets |-> <<>>]
Frame(t) == [kind |-> "DataFrame", cols |-> t, sheets |-> <<>>]
DictOfFrames(ts) == [kind |-> "dict", cols |-> <<>>, sheets |-> ts]

NoError == [type |-> None, msg |-> ""]
Exc(type, msg) == [type |-> type, msg |-> msg]

Returned(v) == [raised |-> FALSE, value |-> v, exc |-> NoError]
Raised(e) == [raised |-> TRUE, value |-> NoDf, exc |-> e]

(***************************************************************************)
(* pd.read_csv(file, encoding=..., sep=...) on a stream.  consumed says    *)
(* the stream's position is past the data (an earlier read moved it and    *)
(* nothing sought back).                                                   *)
(***************************************************************************)
read_csv(file, encoding, consumed) ==
    IF encoding \notin KnownEncodings THEN Raised(Exc("LookupError", "unknown encoding"))
    ELSE IF consumed THEN Raised(Exc("EmptyDataError", "No columns to parse from file"))
    ELSE IF encoding = "utf-8" /\ ~file.utf8
         THEN Raised(Exc("UnicodeDecodeError", "invalid start byte"))
    ELSE IF file.fmt # "text" \/ ~file.parses
         THEN Raised(Exc("ParserError", "Error tokenizing data"))
    ELSE Returned(Frame(MakeTable(file.schemas[1], file.n)))

(***************************************************************************)
(* pd.read_excel(file, sheet_name=..., engine="openpyxl").  sheet_name     *)
(* None asks for every sheet and gives a dict keyed by sheet name.         *)
(***************************************************************************)
SheetIndex(file, name) == CHOOSE i \in 1..Len(file.schemas) : SheetLabel(i) = name

read_excel(file, sheet) ==
    IF file.fmt # "xlsx" THEN Raised(Exc("BadZipFile", "File is not a zip file"))
    ELSE IF sheet = None
         THEN Returned(DictOfFrames([i \in 1..Len(file.schemas) |->
                                       MakeTable(file.schemas[i], file.n)]))
    ELSE Returned(Frame(MakeTable(file.schemas[SheetIndex(file, sheet)], file.n)))

(***************************************************************************)
(* load_file (lines 24-43).  The result also carries reads, the number of  *)
(* read_csv calls made.                                                    *)
(***************************************************************************)
WithReads(r, k) == [raised |-> r.raised, value |-> r.value, exc |-> r.exc, reads |-> k]

load_csv(file, encoding) ==
    LET first == read_csv(file, encoding, FALSE)
    IN  IF ~first.raised THEN WithReads(first, 1)
        ELSE IF first.exc.type = "UnicodeDecodeError"
             \* the handler's own read is outside the try: what it raises leaves
             \* load_file as it is
             \* file.seek(0) has put the stream back at its start
             THEN WithReads(read_csv(file, "latin-1", FALSE), 2)
        ELSE WithReads(Raised(Exc("RuntimeError", "CSV read error")), 1)

load_excel(file, sheet) ==
    LET r == read_excel(file, sheet)
    IN  IF ~r.raised THEN WithReads(r, 0)
        ELSE WithReads(Raised(Exc("RuntimeError", "Excel read error")), 0)

\* load_file without its final raise: an unknown suffix falls through to the text reader
load_file_fallthrough(file, sheet, encoding) ==
    LET suffix == lower(file.ext)
    IN  IF suffix \in {".xlsx", ".xls"} THEN load_excel(file, sheet)
        ELSE load_csv(file, encoding)

load_file(file, sheet, encoding) ==
    LET suffix == lower(file.ext)
    IN  IF suffix \in {".csv", ".txt"} THEN load_csv(file, encoding)
        ELSE IF suffix \in {".xlsx", ".xls"} THEN load_excel(file, sheet)
        ELSE WithReads(Raised(Exc("RuntimeError", "Unsupported file type")), 0)

\* is_datetime_series (lines 45-52)
is_datetime_series(col) ==
    IF is_datetime64_any_dtype(col.dtype) THEN TRUE
    ELSE ~to_datetime_raises(head(dropna(col.vals), SampleSize))


(***************************************************************************)
(* Dataset overview (lines 93-105).                                        *)
(***************************************************************************)
Row(t, i) == [j \in 1..Len(t) |-> t[j].vals[i]]

\* df.duplicated().sum(): rows equal to an earlier row
duplicated_sum(t) ==
    Cardinality({ i \in 1..nrows(t) : \E h \in 1..(i - 1) : Row(t, h) = Row(t, i) })

\* df.isna().sum() of one column
isna_sum(col) == Cardinality({ i \in 1..Len(col.vals) : IsNA(col.vals[i]) })

(***************************************************************************)
(* A float shown with two decimals is kept in hundredths; nan is the       *)
(* not-a-number float.                                                     *)
(***************************************************************************)
NaN == [nan |-> TRUE, h |-> 0]
Hundredths(v) == [nan |-> FALSE, h |-> v]

\* numerator / denominator rounded to the nearest integer, ties to even
RoundHalfEven(num, den) ==
    LET q == num \div den
        r == num % den
    IN  IF 2 * r < den THEN q
        ELSE IF 2 * r > den THEN q + 1
        ELSE IF q % 2 = 0 THEN q ELSE q + 1

\* (count / len(df) * 100).round(2); 0 / 0 is nan in float division
missing_pct(count, rows) ==
    IF rows = 0 THEN NaN
    ELSE Hundredths(RoundHalfEven(count * 10000, rows))

na_table_of(t) ==
    [j \in 1..Len(t) |->
        [name |-> t[j].name,
         count |-> isna_sum(t[j]),
         pct |-> missing_pct(isna_sum(t[j]), nrows(t))]]

(***************************************************************************)
(* df.select_dtypes(include=np.number) / (exclude=np.number): the names of *)
(* the selected columns, in column order.                                  *)
(***************************************************************************)
select_number(t) ==
    ColumnNames(SelectSeq(t, LAMBDA c : is_numeric_dtype(c.dtype)))

select_not_number(t) ==
    ColumnNames(SelectSeq(t, LAMBDA c : ~is_numeric_dtype(c.dtype)))

\* Series.nunique(): distinct non-missing values
nunique(col) == Cardinality({ col.vals[i] : i \in { h \in 1..Len(col.vals) : ~IsNA(col.vals[h]) } })

ColumnIndex(t, name) == CHOOSE j \in 1..Len(t) : t[j].name = name

HasColumn(t, name) == \E j \in 1..Len(t) : t[j].name = name


(***************************************************************************)
(* The aggregator (lines 131-145).  tmp is the frame of line 139-142: one  *)
(* row [ts, target] per row of df, rows with a missing timestamp dropped,  *)
(* sorted by timestamp.  target is NA in every row when the user aggregates*)
(* on "<count>".                                                           *)
(***************************************************************************)
Frequencies == {"Daily", "Weekly", "Monthly", "Quarterly", "Yearly"}

freq_map(freq) ==
    CASE freq = "Daily" -> "D"
      [] freq = "Weekly" -> "W"
      [] freq = "Monthly" -> "M"
      [] freq = "Quarterly" -> "Q"
      [] freq = "Yearly" -> "Y"

\* the calendar period of day d under a resampling rule, as a running number:
\* days; weeks Monday..Sunday (rule W ends its weeks on Sunday; day 0 is a
\* Thursday); calendar months; calendar quarters; calendar years
PeriodOf(rule, d) ==
    LET c == CivilFromDays(d)
    IN  CASE rule = "D" -> d
          [] rule = "W" -> (d + 3) \div 7
          [] rule = "M" -> c.y * 12 + (c.m - 1)
          [] rule = "Q" -> c.y * 4 + (c.m - 1) \div 3
          [] rule = "Y" -> c.y

TsBefore(a, b) == a.d < b.d \/ (a.d = b.d /\ a.n < b.n)

RECURSIVE InsertRow(_, _)
InsertRow(sorted, r) ==
    IF sorted = <<>> THEN <<r>>
    ELSE IF TsBefore(r.ts, Head(sorted).ts) THEN <<r>> \o sorted
    ELSE <<Head(sorted)>> \o InsertRow(Tail(sorted), r)

RECURSIVE sort_values(_)
sort_values(rows) ==
    IF rows = <<>> THEN <<>>
    ELSE InsertRow(sort_values(SubSeq(rows, 1, Len(rows) - 1)), rows[Len(rows)])

\* lines 139-142
make_tmp(t, column, agg_target) ==
    LET tcol == t[ColumnIndex(t, column)]
        rows == [i \in 1..nrows(t) |->
                   [ts |-> tcol.vals[i],
                    target |-> IF agg_target = "<count>" THEN NA
                               ELSE t[ColumnIndex(t, agg_target)].vals[i]]]
    IN  sort_values(SelectSeq(rows, LAMBDA r : ~IsNA(r.ts)))

\* a float value of the series: nan, or num / den
NaNValue == [nan |-> TRUE, num |-> 0, den |-> 1]
Value(num, den) == [nan |-> FALSE, num |-> num, den |-> den]

RECURSIVE SumTargets(_)
SumTargets(rows) ==
    IF rows = <<>> THEN 0 ELSE Head(rows).target.n + SumTargets(Tail(rows))

\* the rows of tmp that fall in period p
InBin(tmp, rule, p) == SelectSeq(tmp, LAMBDA r : PeriodOf(rule, r.ts.d) = p)

\* .size() of one bin
bin_size(rows) == Value(Len(rows), 1)

\* .mean() of one bin: the mean of the non-missing targets, nan when there are none
bin_mean(rows) ==
    LET present == SelectSeq(rows, LAMBDA r : ~IsNA(r.target))
    IN  IF present = <<>> THEN NaNValue
        ELSE Value(SumTargets(present), Len(present))

\* bins as a group-by would give them: only the periods that hold a row
occupied_bins(tmp, rule) ==
    IF tmp = <<>> THEN <<>>
    ELSE LET lo == PeriodOf(rule, tmp[1].ts.d)
             hi == PeriodOf(rule, tmp[Len(tmp)].ts.d)
         IN  SelectSeq([i \in 1..(hi - lo + 1) |-> lo + i - 1],
                       LAMBDA p : InBin(tmp, rule, p) # <<>>)

\* the bins of tmp.resample(rule): every period from that of the earliest
\* timestamp to that of the latest; none when tmp has no rows
resample_bins(tmp, rule) ==
    IF tmp = <<>> THEN <<>>
    ELSE LET lo == PeriodOf(rule, tmp[1].ts.d)
             hi == PeriodOf(rule, tmp[Len(tmp)].ts.d)
         IN  [i \in 1..(hi - lo + 1) |-> lo + i - 1]

\* line 144
resample(tmp, rule, agg_target) ==
    LET bins == resample_bins(tmp, rule)
    IN  [i \in 1..Len(bins) |->
           [period |-> bins[i],
            value |-> IF agg_target = "<count>" THEN bin_size(InBin(tmp, rule, bins[i]))
                      ELSE bin_mean(InBin(tmp, rule, bins[i]))]]

\* line 128: df[column] = pd.to_datetime(col, errors="coerce")
assign_datetime(t, column) ==
    [j \in 1..Len(t) |->
        IF t[j].name = column
        THEN [name |-> column, dtype |-> "datetime64[ns]",
              vals |-> to_datetime_coerce(t[j].vals)]
        ELSE t[j]]

\* the branch of the column explorer (lines 126, 147, 163)
explorer_kind(col) ==
    IF is_datetime_series(col) THEN "Datetime"
    ELSE IF is_numeric_dtype(col.dtype) THEN "Numeric"
    ELSE "Categorical/Text"


(***************************************************************************)
(* df.query(q) (line 200).  A query of the model is one comparison         *)
(* "<col> <op> <literal>"; wellformed is false for text the expression     *)
(* parser rejects.  The empty text is the untouched input box.             *)
(***************************************************************************)
Query(text, wellformed, col, op, lit) ==
    [text |-> text, wellformed |-> wellformed, col |-> col, op |-> op, lit |-> lit]

NoQuery == Query("", TRUE, "", "", NA)

Queries ==
    { NoQuery,
      Query("price > 100", TRUE, "price", ">", Num(100)),
      Query("price >= 100", TRUE, "price", ">=", Num(100)),
      Query("region == 'East'", TRUE, "region", "==", Str("East")),
      Query("region > 100", TRUE, "region", ">", Num(100)),
      Query("nosuch > 1", TRUE, "nosuch", ">", Num(1)),
      Query("price >", FALSE, "price", ">", NA) }

\* the literal as the column's dtype makes the evaluator read it: text compared
\* with a datetime column is converted to a timestamp
LiteralFor(dtype, lit) ==
    IF is_datetime64_any_dtype(dtype) /\ lit.k = "str" THEN to_datetime_value(lit) ELSE lit

\* are the two values of kinds that compare with each other?
Comparable(c, lit) ==
    \/ c.k \in {"num", "big"} /\ lit.k \in {"num", "big"}
    \/ c.k = "str" /\ lit.k = "str"
    \/ c.k = "ts" /\ lit.k = "ts"

\* c > lit for comparable values (text is only compared for equality in the model)
Greater(c, lit) ==
    CASE c.k = "ts" -> TsBefore(lit, c)
      [] c.k = "big" -> lit.k # "big"
      [] c.k = "num" -> lit.k = "num" /\ c.n > lit.n

\* one cell against the literal; a missing cell compares false
CellMatches(c, op, lit) ==
    IF IsNA(c) \/ ~Comparable(c, lit) THEN FALSE
    ELSE CASE op = "==" -> c = lit
           [] op = ">" -> Greater(c, lit)
           [] op = ">=" -> c = lit \/ Greater(c, lit)

\* does the comparison raise?  Ordering a datetime column against anything but
\* a timestamp raises whatever the cells are; an object or number column raises
\* at the first cell whose kind does not order with the literal
ComparisonRaises(col, op, lit) ==
    /\ op # "=="
    /\ \/ is_datetime64_any_dtype(col.dtype) /\ lit.k # "ts"
       \/ \E i \in 1..Len(col.vals) : ~IsNA(col.vals[i]) /\ ~Comparable(col.vals[i], lit)

\* the rows of t at the positions idx, in that order
FilterRows(t, idx) ==
    [j \in 1..Len(t) |->
        [name |-> t[j].name, dtype |-> t[j].dtype,
         vals |-> [h \in 1..Len(idx) |-> t[j].vals[idx[h]]]]]

\* the positions of the rows of col that match, ascending
MatchingRows(col, op, lit) ==
    SelectSeq([i \in 1..Len(col.vals) |-> i], LAMBDA i : CellMatches(col.vals[i], op, lit))

\* a query that gives back every row where the evaluator would raise
query_lenient(t, q) ==
    IF ~q.wellformed \/ ~HasColumn(t, q.col) THEN Returned(Frame(t))
    ELSE LET col == t[ColumnIndex(t, q.col)]
             lit == LiteralFor(col.dtype, q.lit)
         IN  IF ComparisonRaises(col, q.op, lit) THEN Returned(Frame(t))
             ELSE Returned(Frame(FilterRows(t, MatchingRows(col, q.op, lit))))

query(t, q) ==
    IF ~q.wellformed THEN Raised(Exc("SyntaxError", "invalid syntax"))
    ELSE IF ~HasColumn(t, q.col)
         THEN Raised(Exc("UndefinedVariableError", "name is not defined"))
    ELSE LET col == t[ColumnIndex(t, q.col)]
             lit == LiteralFor(col.dtype, q.lit)
         IN  IF is_datetime64_any_dtype(col.dtype) /\ q.lit.k = "str" /\ IsNA(lit)
             THEN Raised(Exc("ValueError", "could not convert string to Timestamp"))
             ELSE IF ComparisonRaises(col, q.op, lit)
             THEN Raised(Exc("TypeError", "Invalid comparison"))
             ELSE Returned(Frame(FilterRows(t, MatchingRows(col, q.op, lit))))

(***************************************************************************)
(* df.to_csv(index=False) (lines 203, 207): a header line and one line per *)
(* row, each a sequence of fields.  A float64 column writes its numbers    *)
(* with a decimal point, a datetime column writes dates alone when every   *)
(* timestamp is at midnight and full timestamps otherwise, a missing cell  *)
(* writes the empty field.  No text of the model needs quoting.            *)
(***************************************************************************)
RECURSIVE Digits(_)
Digits(v) == IF v < 10 THEN 1 ELSE 1 + Digits(v \div 10)

RECURSIVE Zeros(_)
Zeros(k) == IF k <= 0 THEN "" ELSE "0" \o Zeros(k - 1)

\* the decimal digits of v, zero-padded on the left to a width
Pad(v, width) == Zeros(width - Digits(v)) \o ToString(v)

FormatDate(d) ==
    LET c == CivilFromDays(d)
    IN  ToString(c.y) \o "-" \o Pad(c.m, 2)
                      \o "-" \o Pad(c.d, 2)

AllMidnight(vals) == \A i \in 1..Len(vals) : vals[i].k = "ts" => vals[i].n = 0

csv_field(col, c) ==
    CASE c.k = "na" -> ""
      [] c.k = "str" -> c.s
      [] c.k = "big" -> c.s
      [] c.k = "num" -> IF col.dtype = "float64" THEN ToString(c.n) \o ".0" ELSE ToString(c.n)
      [] c.k = "ts" -> IF AllMidnight(col.vals) THEN FormatDate(c.d)
                       ELSE FormatDate(c.d) \o " 00:00:00." \o Pad(c.n, 9)

to_csv(t) ==
    <<ColumnNames(t)>> \o
    [i \in 1..nrows(t) |-> [j \in 1..Len(t) |-> csv_field(t[j], t[j].vals[i])]]

NoCsv == <<>>


(***************************************************************************)
(* State of one session.                                                   *)
(***************************************************************************)
VARIABLES
    pc,            \* the position of the script
    Ufile,         \* the uploaded file, or NoFile
    csv_encoding,  \* the sidebar's "CSV Encoding" box
    sheet_name,    \* the sheet picked in the sidebar, or None
    df,            \* the name df of the script
    loaded,        \* what load_file returned in this run
    error,         \* the exception that ended the run, or NoError
    reads,         \* how many times load_file called pd.read_csv
    shown,         \* the sections rendered so far in this run
    metrics,       \* "Total Rows", "Total Columns", "Duplicate Rows"
    na_table,      \* "Missing Values by Column"
    summary,       \* the columns of the two summary tables
    explorer,      \* the column explorer's choice, branch and series
    corr,          \* the index of the correlation matrix, <<>> when none
    filtered,      \* the filter's query, outcome and download
    download       \* the payload of "Download Full Dataset"

vars == <<pc, Ufile, csv_encoding, sheet_name, df, loaded, error, reads, shown,
          metrics, na_table, summary, explorer, corr, filtered, download>>

NoMetrics == [rows |-> 0, columns |-> 0, duplicates |-> 0]

NoSummary == [numeric |-> <<>>, categorical |-> <<>>, nunique |-> <<>>]

NoExplorer == [column |-> None, kind |-> None, agg_target |-> None, freq |-> None,
               charted |-> FALSE, series |-> <<>>]

NoFilter == [q |-> NoQuery, status |-> None, frame |-> NoDf, exc |-> NoError,
             download |-> NoCsv]

Init ==
    /\ pc = "sidebar"
    /\ Ufile = NoFile
    /\ csv_encoding = "utf-8"
    /\ sheet_name = None
    /\ df = NoDf
    /\ loaded = NoDf
    /\ error = NoError
    /\ reads = 0
    /\ shown = {}
    /\ metrics = NoMetrics
    /\ na_table = <<>>
    /\ summary = NoSummary
    /\ explorer = NoExplorer
    /\ corr = <<>>
    /\ filtered = NoFilter
    /\ download = NoCsv

\* lines 57-65: the uploader and the two text inputs.  The encoding box only
\* matters to delimited text; for workbooks the model leaves it at its default.
Sidebar ==
    /\ pc = "sidebar"
    /\ \/ /\ Ufile' = NoFile
          /\ csv_encoding' = "utf-8"
       \/ /\ Ufile' \in TextUploads
          /\ csv_encoding' \in Encodings
       \/ /\ Ufile' \in BookUploads
          /\ csv_encoding' = "utf-8"
    /\ pc' = "sheets"
    /\ UNCHANGED <<metrics, sheet_name, df, loaded, error, reads, shown, na_table, summary,
                   explorer, corr, filtered, download>>

\* pd.ExcelFile(Ufile) with no engine given: it raises when the workbook's format
\* cannot be worked out from the bytes; a BIFF workbook needs the xlrd reader,
\* which the environment may or may not have
ExcelFileOutcomes(file) ==
    CASE file.fmt = "xlsx" -> IF file.listable THEN {"opened"} ELSE {"raised"}
      [] file.fmt = "biff" -> {"opened", "raised"}
      [] OTHER -> {"raised"}

\* lines 67-74
SheetSelect ==
    /\ pc = "sheets"
    /\ IF Ufile # NoFile /\ lower(Ufile.ext) \in {".xlsx", ".xls"}
       THEN \E outcome \in ExcelFileOutcomes(Ufile) :
               IF outcome = "opened"
               THEN \E i \in 1..Len(Ufile.schemas) : sheet_name' = sheet_names(Ufile)[i]
               ELSE sheet_name' = None
       ELSE sheet_name' = None
    /\ pc' = "main"
    /\ UNCHANGED <<metrics, Ufile, csv_encoding, df, loaded, error, reads, shown, na_table,
                   summary, explorer, corr, filtered, download>>

\* lines 79-84
Load ==
    /\ pc = "main"
    /\ Ufile # NoFile
    /\ LET r == load_file(Ufile, sheet_name, csv_encoding)
       IN  /\ reads' = r.reads
           /\ IF r.raised
              THEN /\ error' = r.exc
                   /\ shown' = shown \cup {"error"}
                   /\ pc' = "stopped"
                   /\ UNCHANGED <<df, loaded>>
              ELSE /\ df' = r.value
                   /\ loaded' = r.value
                   /\ pc' = "preview"
                   /\ UNCHANGED <<error, shown>>
    /\ UNCHANGED <<metrics, Ufile, csv_encoding, sheet_name, na_table, summary, explorer, corr,
                   filtered, download>>

\* lines 209-210
NoUpload ==
    /\ pc = "main"
    /\ Ufile = NoFile
    /\ shown' = shown \cup {"info"}
    /\ pc' = "done"
    /\ UNCHANGED <<metrics, Ufile, csv_encoding, sheet_name, df, loaded, error, reads, na_table,
                   summary, explorer, corr, filtered, download>>

\* lines 86-88; a dict has no head(), and nothing catches the AttributeError
Preview ==
    /\ pc = "preview"
    /\ IF df.kind = "DataFrame"
       THEN /\ shown' = shown \cup {"preview"}
            /\ pc' = "overview"
            /\ UNCHANGED error
       ELSE /\ error' = Exc("AttributeError", "'dict' object has no attribute 'head'")
            /\ pc' = "crashed"
            /\ UNCHANGED shown
    /\ UNCHANGED <<metrics, Ufile, csv_encoding, sheet_name, df, loaded, reads, na_table, summary,
                   explorer, corr, filtered, download>>

\* lines 93-105
Overview ==
    /\ pc = "overview"
    /\ metrics' = [rows |-> nrows(df.cols), columns |-> Len(df.cols),
                   duplicates |-> duplicated_sum(df.cols)]
    /\ na_table' = na_table_of(df.cols)
    /\ shown' = shown \cup {"overview"}
    /\ pc' = "summary"
    /\ UNCHANGED <<Ufile, csv_encoding, sheet_name, df, loaded, error, reads, summary,
                   explorer, corr, filtered, download>>

\* lines 110-117
SummaryStatistics ==
    /\ pc = "summary"
    /\ summary' = [numeric |-> select_number(df.cols),
                   categorical |-> select_not_number(df.cols),
                   nunique |-> LET cat == SelectSeq(df.cols,
                                               LAMBDA c : ~is_numeric_dtype(c.dtype))
                               IN  [j \in 1..Len(cat) |-> nunique(cat[j])]]
    /\ shown' = shown \cup {"summary"}
    /\ pc' = "explorer"
    /\ UNCHANGED <<metrics, Ufile, csv_encoding, sheet_name, df, loaded, error, reads, na_table,
                   explorer, corr, filtered, download>>

\* lines 126-145, the datetime branch, for the chosen target and frequency
DatetimeBranch(column, agg_target, freq) ==
    LET col == df.cols[ColumnIndex(df.cols, column)]
        t == IF is_datetime64_any_dtype(col.dtype) THEN df.cols
             ELSE assign_datetime(df.cols, column)
    IN  /\ agg_target \in {"<count>"} \cup { select_number(t)[j] : j \in 1..Len(select_number(t)) }
        /\ df' = Frame(t)
        /\ explorer' = [column |-> column, kind |-> "Datetime", agg_target |-> agg_target,
                        freq |-> freq, charted |-> TRUE,
                        series |-> resample(make_tmp(t, column, agg_target),
                                            freq_map(freq), agg_target)]

\* lines 122-171
ColumnExplorer ==
    /\ pc = "explorer"
    /\ \E j \in 1..Len(df.cols) :
          LET column == df.cols[j].name
              kind == explorer_kind(df.cols[j])
          IN  IF kind = "Datetime"
              THEN \E agg_target \in {"<count>"} \cup { df.cols[h].name : h \in 1..Len(df.cols) },
                      freq \in Frequencies :
                          DatetimeBranch(column, agg_target, freq)
              ELSE /\ explorer' = [column |-> column, kind |-> kind, agg_target |-> None,
                                   freq |-> None, charted |-> FALSE, series |-> <<>>]
                   /\ UNCHANGED df
    /\ shown' = shown \cup {"explorer"}
    /\ pc' = "correlation"
    /\ UNCHANGED <<metrics, Ufile, csv_encoding, sheet_name, loaded, error, reads, na_table,
                   summary, corr, filtered, download>>

\* lines 176-189; the matrix is kept by its index, the numeric columns
Correlation ==
    /\ pc = "correlation"
    /\ LET num == select_number(df.cols)
       IN  IF Len(num) >= 2
           THEN /\ corr' = num
                /\ shown' = shown \cup {"correlation"}
           ELSE UNCHANGED <<corr, shown>>
    /\ pc' = "filter"
    /\ UNCHANGED <<metrics, Ufile, csv_encoding, sheet_name, df, loaded, error, reads, na_table,
                   summary, explorer, filtered, download>>

\* lines 194-205
Filter ==
    /\ pc = "filter"
    /\ \E q \in Queries :
          IF q.text = "" THEN filtered' = NoFilter
          ELSE LET r == query(df.cols, q)
               IN  IF r.raised
                   THEN filtered' = [q |-> q, status |-> "error", frame |-> NoDf,
                                     exc |-> r.exc, download |-> NoCsv]
                   ELSE filtered' = [q |-> q, status |-> "ok", frame |-> r.value,
                                     exc |-> NoError, download |-> to_csv(r.value.cols)]
    /\ shown' = shown \cup {"filter"}
    /\ pc' = "export"
    /\ UNCHANGED <<metrics, Ufile, csv_encoding, sheet_name, df, loaded, error, reads, na_table,
                   summary, explorer, corr, download>>

\* line 207
DownloadFull ==
    /\ pc = "export"
    /\ download' = to_csv(df.cols)
    /\ shown' = shown \cup {"export"}
    /\ pc' = "done"
    /\ UNCHANGED <<metrics, Ufile, csv_encoding, sheet_name, df, loaded, error, reads, na_table,
                   summary, explorer, corr, filtered>>

\* any interaction reruns the script from the top with the widgets' new values
Rerun ==
    /\ pc \in {"done", "stopped", "crashed"}
    /\ pc' = "sidebar"
    /\ Ufile' = NoFile
    /\ csv_encoding' = "utf-8"
    /\ sheet_name' = None
    /\ df' = NoDf
    /\ loaded' = NoDf
    /\ error' = NoError
    /\ reads' = 0
    /\ shown' = {}
    /\ metrics' = NoMetrics
    /\ na_table' = <<>>
    /\ summary' = NoSummary
    /\ explorer' = NoExplorer
    /\ corr' = <<>>
    /\ filtered' = NoFilter
    /\ download' = NoCsv

Next ==
    \/ Sidebar
    \/ SheetSelect
    \/ Load
    \/ NoUpload
    \/ Preview
    \/ Overview
    \/ SummaryStatistics
    \/ ColumnExplorer
    \/ Correlation
    \/ Filter
    \/ DownloadFull
    \/ Rerun

Spec == Init /\ [][Next]_vars


(***************************************************************************)
(* Properties.                                                             *)
(***************************************************************************)
SupportedSuffixes == {".csv", ".txt", ".xlsx", ".xls"}

Loading == pc \in {"sidebar", "sheets", "main"}

\* C1: an upload whose extension is none of .csv, .txt, .xlsx, .xls ends the
\* run at load_file with the unsupported-file-type error: no table is bound to
\* df, and nothing but the error message is rendered or computed.
C1_UnsupportedStops ==
    (~Loading /\ Ufile # NoFile /\ lower(Ufile.ext) \notin SupportedSuffixes)
        => /\ pc = "stopped"
           /\ error = Exc("RuntimeError", "Unsupported file type")
           /\ df = NoDf /\ loaded = NoDf
           /\ shown = {"error"}
           /\ metrics = NoMetrics /\ na_table = <<>>
           /\ summary = NoSummary /\ explorer = NoExplorer
           /\ corr = <<>> /\ filtered = NoFilter /\ download = NoCsv

C1_Witness == pc = "stopped" /\ Ufile.ext = ".json" /\ error.msg = "Unsupported file type"

\* C2: a workbook loaded with sheet_name = None gives df the table of the
\* workbook's first sheet.
C2_NullSheetIsFirstSheet ==
    (pc = "preview" /\ lower(Ufile.ext) \in {".xlsx", ".xls"} /\ sheet_name = None)
        => df = Frame(MakeTable(Ufile.schemas[1], Ufile.n))

\* C3: load_file reads delimited text at most twice, and when the second read
\* (the fallback encoding) fails too, the failure is the load error load_file
\* raises for its other failures.
C3_RetryFailureIsLoadError ==
    /\ reads <= 2
    /\ (pc = "stopped" /\ reads = 2) => error.type = "RuntimeError"

\* the column the explorer chose, as load_file returned it
ChosenAsLoaded == loaded.cols[ColumnIndex(loaded.cols, explorer.column)]

\* the column the explorer chose, as df holds it now
ChosenNow == df.cols[ColumnIndex(df.cols, explorer.column)]

AllMissing(col) == \A i \in 1..Len(col.vals) : IsNA(col.vals[i])

\* C4: a chosen column that has rows, all of them missing, and is not stored as
\* timestamps is explored as categorical/text.
C4_AllMissingIsCategorical ==
    (explorer.kind # None
       /\ Len(ChosenAsLoaded.vals) > 0
       /\ AllMissing(ChosenAsLoaded)
       /\ ~is_datetime64_any_dtype(ChosenAsLoaded.dtype))
        => explorer.kind = "Categorical/Text"

InSeq(x, seq) == \E i \in 1..Len(seq) : seq[i] = x

\* C5: once the correlator has run, the columns the summary statistics took as
\* numeric are the columns the correlator takes as numeric, and the explorer
\* took its column as numeric exactly when the summary statistics did.
C5_KindsAgree ==
    pc \in {"filter", "export", "done"}
        => /\ \A j \in 1..Len(loaded.cols) :
                InSeq(loaded.cols[j].name, summary.numeric)
                    <=> InSeq(loaded.cols[j].name, select_number(df.cols))
           /\ (explorer.kind = "Numeric") <=> InSeq(explorer.column, summary.numeric)

\* C6: when the datetime branch finds no row with a timestamp, the run reports
\* the no-valid-timestamps aggregation error and charts no series.
C6_NoTimestampsIsError ==
    (explorer.kind = "Datetime" /\ AllMissing(ChosenNow))
        => /\ ~explorer.charted
           /\ error.type = "AggregationError"

\* the periods that hold a timestamp of the chosen column
OccupiedPeriods ==
    { PeriodOf(freq_map(explorer.freq), ChosenNow.vals[i].d) :
        i \in { h \in 1..Len(ChosenNow.vals) : ~IsNA(ChosenNow.vals[h]) } }

MinOf(S) == CHOOSE x \in S : \A y \in S : x <= y
MaxOf(S) == CHOOSE x \in S : \A y \in S : x >= y

\* C7: with at least one timestamp, the series has exactly one entry for each
\* period from the period of the earliest timestamp to that of the latest, in
\* ascending order; an entry of a period holding no row is 0 when counting and
\* nan (not 0) when averaging.
C7_SeriesCoversSpan ==
    (explorer.charted /\ OccupiedPeriods # {})
        => LET lo == MinOf(OccupiedPeriods)
               hi == MaxOf(OccupiedPeriods)
           IN  /\ Len(explorer.series) = hi - lo + 1
               /\ \A i \in 1..Len(explorer.series) :
                     /\ explorer.series[i].period = lo + i - 1
                     /\ explorer.series[i].period \notin OccupiedPeriods
                          => explorer.series[i].value =
                               IF explorer.agg_target = "<count>" THEN Value(0, 1)
                               ELSE NaNValue

C7_Witness ==
    /\ explorer.charted
    /\ explorer.freq = "Monthly"
    /\ explorer.agg_target # "<count>"
    /\ Len(explorer.series) = 4
    /\ explorer.series[2].value.nan
    /\ explorer.series[2].period \notin OccupiedPeriods

\* does evaluating the submitted q on t fail: text the parser rejects, a column
\* t does not have, or a text cell ordered against a number
EvaluationFails(t, q) ==
    /\ q.text # ""
    /\ \/ ~q.wellformed
       \/ ~HasColumn(t, q.col)
       \/ /\ q.op # "==" /\ q.lit.k = "num"
          /\ \E i \in 1..nrows(t) : t[ColumnIndex(t, q.col)].vals[i].k = "str"

\* C8: the filter step never changes df; when evaluation fails it leaves a
\* filter error and neither a filtered table nor a filtered download, and the
\* run still offers the download of the unfiltered df.
C8_FilterLeavesTable ==
    /\ [][pc = "filter" =>
            /\ df' = df
            /\ EvaluationFails(df.cols, filtered'.q) =>
                  /\ filtered'.status = "error"
                  /\ filtered'.exc # NoError
                  /\ filtered'.frame = NoDf
                  /\ filtered'.download = NoCsv]_vars
    /\ []((pc = "done" /\ filtered.status = "error") => download = to_csv(df.cols))

C8_Witness ==
    /\ pc = "done"
    /\ filtered.status = "error"
    /\ filtered.exc.type = "TypeError"
    /\ download # NoCsv

\* C9: each column's missing percentage is missing_count / row_count * 100
\* rounded to two decimals, and 0 for a table with no rows.
C9_MissingPercentage ==
    (pc \notin {"sidebar", "sheets", "main", "preview", "overview", "stopped", "crashed"}
       /\ Ufile # NoFile)
        => \A j \in 1..Len(na_table) :
              na_table[j].pct =
                  IF nrows(loaded.cols) = 0 THEN Hundredths(0)
                  ELSE Hundredths(RoundHalfEven(na_table[j].count * 10000, nrows(loaded.cols)))

\* C10: at the end of a run df has the rows and the cell values load_file
\* returned, and the full download is the serialisation of that table.
C10_TableUnchanged ==
    (pc = "done" /\ loaded.kind = "DataFrame")
        => /\ nrows(df.cols) = nrows(loaded.cols)
           /\ \A j \in 1..Len(loaded.cols) : df.cols[j].vals = loaded.cols[j].vals
           /\ download = to_csv(loaded.cols)

=============================================================================
